---------------------------- MODULE Spec2Model ----------------------------
(***************************************************************************)
(* Model of the VibrationVIEW COM wrapper (vibrationviewapi.py): session   *)
(* construction with its readiness retry loop, close(), __del__, and the   *)
(* typed call surface against a remote endpoint that may fail any call.    *)
(*                                                                         *)
(* Time is counted in ticks of 0.5 s, so the 0.5 s first backoff delay of  *)
(* the source is 1 tick and the 15.5 s worst case is 31 ticks.             *)
(***************************************************************************)
EXTENDS Integers, Sequences, FiniteSets, TLC

\* ------------------------------------------------------------------ bounds
MaxSessions == 2
MaxThreads == 2
MaxCloses == 2
MaxChannels == 2
MaxRows == 2
MaxCols == 2
MaxTedsRows == 2
MaxWait == 2
MaxInterval == 1
MaxClock == 3
MaxSamples == 3

Sessions == 1..MaxSessions
Threads == 1..MaxThreads

\* ------------------------------------------------------- program constants
\* retryAttempts = 5
retryAttempts == 5
\* waitTime = 0.5 (seconds), one tick
waitTime0 == 1
\* RearInput: num_inputs = 8
num_inputs == 8

VARIABLES
    pc,               \* per session: "new", "check", "sleep", "done", "gone"
    thr,              \* per session: the thread that ran __init__ (0: none yet)
    handle,           \* per session: the local vv of __init__: "none", "obj", "falsy"
    attempt,          \* per session: loop variable attempt (0 before the loop)
    waitTime,         \* per session: local waitTime, in ticks
    sleeps,           \* per session: the time.sleep() arguments so far, in order
    reading,          \* per session: what the latest attempt read
    firstReady,       \* per session: first attempt at which IsReady read true (0: none)
    vv,               \* per session: self.vv: "unset", "live", "null"
    initialized_com,  \* per session: self._initialized_com: "unset", TRUE, FALSE
    closes,           \* per session: number of close() calls made on it
    com_initialized,  \* per thread: the thread-local set _com_initialized.threads
    comCount,         \* per thread: outstanding COM initializations of the thread
    last,             \* the latest operation and its outcome
    endpoint,         \* the endpoint: the value each of its members holds
    prev,             \* the operation before the latest one
    wpc,              \* the wait helper: "idle", "test", "sample", "sleep", "done"
    wfn,              \* the wait helper that was called
    wait_time,        \* its argument wait_time, in ticks
    check_interval,   \* its argument check_interval, in ticks
    elapsed,          \* time.time() - start_time, in ticks
    result,           \* its local result: <<>> while unassigned, else <<value>>
    returned,         \* what it returned: <<>> while running, else <<value>>
    events,           \* its samples and sleeps so far, in order
    predicate,        \* what condition_func() would return now
    atCall,           \* what condition_func() would have returned at the call
    twin,             \* the other copy of the helper, run on the same readings
    tester            \* the harness: its position in run_all_tests, the tests
                      \* run with their run_test results, whether a test
                      \* function used the endpoint, the summary, the return

\* the sessions' state, untouched by the wait helpers
sessionVars == <<pc, thr, handle, attempt, waitTime, sleeps, reading, firstReady,
                 vv, initialized_com, closes, com_initialized, comCount, last>>

\* the endpoint's state and the wait helper's, untouched by the session's
\* life cycle
waitVars == <<wpc, wfn, wait_time, check_interval, elapsed, result, returned,
              events, predicate, atCall, twin>>

restVars == <<endpoint, prev, waitVars, tester>>

vars == <<pc, thr, handle, attempt, waitTime, sleeps, reading, firstReady, vv,
          initialized_com, closes, com_initialized, comCount, last,
          endpoint, prev, wpc, wfn, wait_time, check_interval, elapsed,
          result, returned, events, predicate, atCall, twin, tester>>

\* ------------------------------------------------------------- helpers
\* A thread runs one call at a time: it is busy while a construction it
\* started is still inside __init__.
Busy(t) == \E s \in Sessions : pc[s] \in {"check", "sleep"} /\ thr[s] = t

\* line 26: not hasattr(..., 'threads') or thread_id not in ....threads
\* (a thread without the attribute is a thread with the empty set)
NeedsCoInitializeAlways(reg, t) == TRUE
NeedsCoInitialize(reg, t) == t \notin reg

\* line 45: vv and vv.IsReady, for a handle h and a readiness reading r
AttemptSucceedsUnready(h, r) == h = "obj" /\ r \in {"ready", "notready"}
AttemptSucceeds(h, r) == h = "obj" /\ r = "ready"

\* line 57: waitTime *= 2
NextWaitLinear(w) == w + 1
NextWait(w) == w * 2

\* line 43: for attempt in range(1, retryAttempts + 1), after attempt a
MoreAttemptsOffByOne(a) == a <= retryAttempts
MoreAttempts(a) == a < retryAttempts

\* line 51: if attempt == retryAttempts: break
LastAttempt(a) == a = retryAttempts

\* line 73: hasattr(self, '_initialized_com') and self._initialized_com
OwnsCom(flag) == flag = TRUE

\* pythoncom.CoUninitialize() on a thread with n outstanding initializations:
\* releases one; an unbalanced call leaves the thread uninitialized.
CoUninitialize(n) == IF n > 0 THEN n - 1 ELSE 0

\* lines 83-84 and 68-69: if hasattr(self, 'vv') and self.vv is not None: self.vv = None
ReleaseHandle(v) == IF v = "live" THEN "null" ELSE v

\* The record of an operation: what was called on which session (and, for
\* construction and teardown, on which thread), whether it returned or
\* raised, the error or the value, the members of the endpoint it used in
\* order, and what the endpoint did during the call (env; 0 when the call
\* never reached the endpoint).
Op(name, s, t, outcome) ==
    [op |-> name, s |-> s, t |-> t, outcome |-> outcome, error |-> "",
     value |-> 0, calls |-> <<>>, failed |-> FALSE, env |-> 0]

\* ------------------------------------------------------------ __init__
\* Lines 25-33: COM initialization of the calling thread, once per thread.
ComInit(s, t) ==
    /\ thr' = [thr EXCEPT ![s] = t]
    /\ IF NeedsCoInitialize(com_initialized[t], t)
         THEN /\ comCount' = [comCount EXCEPT ![t] = @ + 1]
              /\ com_initialized' = [com_initialized EXCEPT ![t] = @ \cup {t}]
              /\ initialized_com' = [initialized_com EXCEPT ![s] = TRUE]
         ELSE /\ initialized_com' = [initialized_com EXCEPT ![s] = FALSE]
              /\ UNCHANGED <<comCount, com_initialized>>

\* Lines 22-41 and 58-60 with the retry loop entered even though Dispatch raised.
InitBeginAttemptsAnyway(s, t, d) ==
    /\ pc[s] = "new"
    /\ ~Busy(t)
    /\ ComInit(s, t)
    /\ handle' = [handle EXCEPT ![s] = IF d = "raise" THEN "none" ELSE d]
    /\ attempt' = [attempt EXCEPT ![s] = 1]
    /\ waitTime' = [waitTime EXCEPT ![s] = waitTime0]
    /\ pc' = [pc EXCEPT ![s] = "check"]
    /\ last' = Op("__init__", s, t, "running")
    /\ UNCHANGED <<sleeps, reading, firstReady, vv, closes>>
    /\ UNCHANGED restVars

\* Lines 22-41 and 58-60: COM initialization, then Dispatch, which raises,
\* or returns a handle (possibly a falsy one).
InitBegin(s, t, d) ==
    /\ pc[s] = "new"
    /\ ~Busy(t)
    /\ ComInit(s, t)
    /\ IF d = "raise"
         THEN \* lines 58-60: the handler sets the local vv, not self.vv
              /\ pc' = [pc EXCEPT ![s] = "done"]
              /\ last' = Op("__init__", s, t, "returned")
              /\ UNCHANGED <<handle, attempt, waitTime>>
         ELSE /\ handle' = [handle EXCEPT ![s] = d]
              /\ attempt' = [attempt EXCEPT ![s] = 1]
              /\ waitTime' = [waitTime EXCEPT ![s] = waitTime0]
              /\ pc' = [pc EXCEPT ![s] = "check"]
              /\ last' = Op("__init__", s, t, "running")
    /\ UNCHANGED <<sleeps, reading, firstReady, vv, closes>>
    /\ UNCHANGED restVars

\* Lines 43-53: one pass of the try block of the retry loop.  r is what
\* reading vv.IsReady does: "ready", "notready" or "raise".  A falsy handle
\* short-circuits the test, so IsReady is not read at all.
InitAttempt(s, r) ==
    /\ pc[s] = "check"
    /\ LET got == IF handle[s] = "falsy" THEN "skipped" ELSE r IN
       /\ reading' = [reading EXCEPT ![s] = got]
       /\ firstReady' = [firstReady EXCEPT ![s] =
                            IF got = "ready" /\ @ = 0 THEN attempt[s] ELSE @]
       /\ IF AttemptSucceeds(handle[s], got)
            THEN /\ vv' = [vv EXCEPT ![s] = "live"]
                 /\ pc' = [pc EXCEPT ![s] = "done"]
                 /\ last' = Op("__init__", s, thr[s], "returned")
            ELSE /\ vv' = vv
                 /\ IF got = "raise" /\ LastAttempt(attempt[s])
                      THEN /\ pc' = [pc EXCEPT ![s] = "done"]
                           /\ last' = Op("__init__", s, thr[s], "returned")
                      ELSE /\ pc' = [pc EXCEPT ![s] = "sleep"]
                           /\ last' = Op("__init__", s, thr[s], "running")
    /\ UNCHANGED <<thr, handle, attempt, waitTime, sleeps, initialized_com,
                   closes, com_initialized, comCount>>
    /\ UNCHANGED restVars

\* Lines 55-57, and the loop header of line 43: sleep, double the delay and
\* go to the next attempt, or fall out of the loop after the last one.
InitSleep(s) ==
    /\ pc[s] = "sleep"
    /\ sleeps' = [sleeps EXCEPT ![s] = Append(@, waitTime[s])]
    /\ waitTime' = [waitTime EXCEPT ![s] = NextWait(@)]
    /\ IF MoreAttempts(attempt[s])
         THEN /\ attempt' = [attempt EXCEPT ![s] = @ + 1]
              /\ pc' = [pc EXCEPT ![s] = "check"]
              /\ last' = Op("__init__", s, thr[s], "running")
         ELSE /\ attempt' = attempt
              /\ pc' = [pc EXCEPT ![s] = "done"]
              /\ last' = Op("__init__", s, thr[s], "returned")
    /\ UNCHANGED <<thr, handle, reading, firstReady, vv, initialized_com, closes,
                   com_initialized, comCount>>
    /\ UNCHANGED restVars

\* Lines 22-60 as one step, for the specification of many sessions: the
\* COM initialization, and the retry loop by its result, self.vv either
\* set to the ready handle (ok) or left unset.
Construct(s, t, ok) ==
    /\ pc[s] = "new"
    /\ ComInit(s, t)
    /\ pc' = [pc EXCEPT ![s] = "done"]
    /\ vv' = [vv EXCEPT ![s] = IF ok THEN "live" ELSE "unset"]
    /\ last' = Op("__init__", s, t, "returned")
    /\ UNCHANGED <<handle, attempt, waitTime, sleeps, reading, firstReady, closes>>
    /\ UNCHANGED restVars

\* --------------------------------------------------------------- close
\* Lines 81-85, called on thread t.
close(s, t) ==
    /\ pc[s] = "done"
    /\ ~Busy(t)
    /\ closes[s] < MaxCloses
    /\ closes' = [closes EXCEPT ![s] = @ + 1]
    /\ vv' = [vv EXCEPT ![s] = ReleaseHandle(@)]
    /\ comCount' = [comCount EXCEPT ![t] = CoUninitialize(@)]
    /\ last' = Op("close", s, t, "returned")
    /\ UNCHANGED <<pc, thr, handle, attempt, waitTime, sleeps, reading, firstReady,
                   initialized_com, com_initialized>>
    /\ UNCHANGED restVars

\* ------------------------------------------------------------- __del__
\* Lines 62-79, run on thread t when the object is destroyed.  The object
\* and its attributes are gone afterwards.
Del(s, t) ==
    /\ pc[s] = "done"
    /\ ~Busy(t)
    /\ pc' = [pc EXCEPT ![s] = "gone"]
    /\ IF OwnsCom(initialized_com[s]) /\ t \in com_initialized[t]
         THEN /\ com_initialized' = [com_initialized EXCEPT ![t] = @ \ {t}]
              /\ comCount' = [comCount EXCEPT ![t] = CoUninitialize(@)]
         ELSE UNCHANGED <<com_initialized, comCount>>
    /\ thr' = [thr EXCEPT ![s] = 0]
    /\ handle' = [handle EXCEPT ![s] = "none"]
    /\ attempt' = [attempt EXCEPT ![s] = 0]
    /\ waitTime' = [waitTime EXCEPT ![s] = 0]
    /\ sleeps' = [sleeps EXCEPT ![s] = <<>>]
    /\ reading' = [reading EXCEPT ![s] = "none"]
    /\ firstReady' = [firstReady EXCEPT ![s] = 0]
    /\ vv' = [vv EXCEPT ![s] = "unset"]
    /\ initialized_com' = [initialized_com EXCEPT ![s] = "unset"]
    /\ closes' = [closes EXCEPT ![s] = 0]
    /\ last' = Op("__del__", s, t, "returned")
    /\ UNCHANGED restVars

\* =================================================================
\* The typed call surface (lines 87-537)
\* =================================================================
\* what the endpoint may return for a scalar
Vals == {0, 1}

\* self.vv.<member> can be evaluated: self.vv exists and is not None;
\* otherwise the attribute access raises AttributeError
HandleUsable(v) == v = "live"

Raised(err, calls, failed) ==
    [outcome |-> "raised", error |-> err, value |-> 0, calls |-> calls, failed |-> failed]

Returned(val, calls, failed) ==
    [outcome |-> "returned", error |-> "", value |-> val, calls |-> calls, failed |-> failed]

\* Methods that are one access to a member of the endpoint:
\* <<method, member, conversion of the result>>
Surface ==
    {<<"RunTest", "RunTest", "raw">>, <<"OpenTest", "OpenTest", "raw">>,
     <<"EditTest", "EditTest", "raw">>, <<"StartTest", "StartTest", "raw">>,
     <<"StopTest", "StopTest", "raw">>, <<"AbortEdit", "AbortEdit", "raw">>,
     <<"SaveData", "SaveData", "raw">>, <<"Minimize", "Minimize", "raw">>,
     <<"Restore", "Restore", "raw">>, <<"Maximize", "Maximize", "raw">>,
     <<"Activate", "Activate", "raw">>, <<"MenuCommand", "MenuCommand", "raw">>,
     <<"Status", "Status", "dict">>,
     <<"IsRunning", "Running", "bool">>, <<"IsStarting", "Starting", "bool">>,
     <<"IsChangingLevel", "ChangingLevel", "bool">>,
     <<"IsHoldLevel", "HoldLevel", "bool">>, <<"IsOpenLoop", "OpenLoop", "bool">>,
     <<"IsAborted", "Aborted", "bool">>, <<"CanResumeTest", "CanResumeTest", "bool">>,
     <<"IsReady", "IsReady", "bool">>, <<"ResumeTest", "ResumeTest", "raw">>,
     <<"VectorUnit", "VectorUnit", "raw">>, <<"VectorLabel", "VectorLabel", "raw">>,
     <<"VectorLength", "VectorLength", "raw">>,
     <<"ControlUnit", "ControlUnit", "raw">>, <<"ControlLabel", "ControlLabel", "raw">>,
     <<"ChannelUnit", "ChannelUnit", "raw">>, <<"ChannelLabel", "ChannelLabel", "raw">>,
     <<"ReportField", "ReportField", "raw">>,
     <<"RearInputUnit", "RearInputUnit", "raw">>,
     <<"RearInputLabel", "RearInputLabel", "raw">>,
     <<"SweepUp", "SweepUp", "raw">>, <<"SweepDown", "SweepDown", "raw">>,
     <<"SweepStepUp", "SweepStepUp", "raw">>, <<"SweepStepDown", "SweepStepDown", "raw">>,
     <<"SweepHold", "SweepHold", "raw">>,
     <<"SweepResonanceHold", "SweepResonanceHold", "raw">>,
     <<"GetHardwareInputChannels", "HardwareInputChannels", "raw">>,
     <<"GetHardwareOutputChannels", "HardwareOutputChannels", "raw">>,
     <<"GetHardwareSerialNumber", "HardwareSerialNumber", "raw">>,
     <<"GetSoftwareVersion", "SoftwareVersion", "raw">>,
     <<"InputCalDate", "InputCalDate", "raw">>,
     <<"InputSerialNumber", "InputSerialNumber", "raw">>,
     <<"InputSensitivity", "InputSensitivity", "raw">>,
     <<"InputEngineeringScale", "InputEngineeringScale", "raw">>,
     <<"InputMode", "InputMode", "raw">>,
     <<"InputCalibration", "InputCalibration", "raw">>,
     <<"HardwareSupportsCapacitorCoupled", "HardwareSupportsCapacitorCoupled", "raw">>,
     <<"HardwareSupportsAccelPowerSource", "HardwareSupportsAccelPowerSource", "raw">>,
     <<"HardwareSupportsDifferential", "HardwareSupportsDifferential", "raw">>,
     <<"GetActiveTest", "ActiveTest", "raw">>,
     <<"RecordStart", "RecordStart", "raw">>, <<"RecordStop", "RecordStop", "raw">>,
     <<"RecordPause", "RecordPause", "raw">>,
     <<"RecordGetFilename", "RecordGetFilename", "raw">>,
     <<"SetInputConfigurationFile", "set_InputConfigurationFile", "raw">>}

\* Combined getter/setters: <<method, member>>
GetSetSurface ==
    {<<"DemandMultiplier", "DemandMultipler">>, <<"SweepMultiplier", "SweepMultiplier">>,
     <<"TestType", "TestType">>, <<"SystemCheckFrequency", "SystemCheckFrequency">>,
     <<"SystemCheckOutputVoltage", "SystemCheckOutputVoltage">>,
     <<"SineFrequency", "SineFrequency">>,
     <<"InputCapacitorCoupled", "InputCapacitorCoupled">>,
     <<"InputAccelPowerSource", "InputAccelPowerSource">>,
     <<"InputDifferential", "InputDifferential">>}

\* Demand, Control, Output: <<method, whether the local array is returned>>
LoopArraySurface == {<<"Demand", FALSE>>, <<"Control", TRUE>>, <<"Output", TRUE>>}

\* bool(...) of the status predicates, the dict of Status(), else as is
Convert(conv, rv) ==
    CASE conv = "bool" -> (rv # 0)
      [] conv = "dict" -> [stop_code |-> rv, stop_code_index |-> rv]
      [] OTHER -> rv

\* return self.vv.<member>  /  return self.vv.<member>(...)
SingleResultCached(v, member, conv, fail, rv) ==
    IF ~HandleUsable(v) THEN Raised("AttributeError", <<>>, FALSE)
    ELSE Returned(Convert(conv, 0), <<>>, FALSE)
SingleResult(v, member, conv, fail, rv) ==
    IF ~HandleUsable(v) THEN Raised("AttributeError", <<>>, FALSE)
    ELSE IF fail THEN Raised("com_error", <<<<member, "get">>>>, TRUE)
    ELSE Returned(Convert(conv, rv), <<<<member, "get">>>>, FALSE)

\* lines 372-435, 462-484: arg is <<>> when value is omitted (None), <<x>> otherwise
GetSetResultTruthy(v, member, arg, fail, rv) ==
    IF arg = <<>> \/ arg = <<0>> THEN SingleResult(v, member, "raw", fail, rv)
    ELSE IF ~HandleUsable(v) THEN Raised("AttributeError", <<>>, FALSE)
    ELSE IF fail THEN Raised("com_error", <<<<member, "set">>>>, TRUE)
    ELSE Returned(arg[1], <<<<member, "set">>>>, FALSE)
GetSetResult(v, member, arg, fail, rv) ==
    IF arg = <<>> THEN SingleResult(v, member, "raw", fail, rv)
    ELSE IF ~HandleUsable(v) THEN Raised("AttributeError", <<>>, FALSE)
    ELSE IF fail THEN Raised("com_error", <<<<member, "set">>>>, TRUE)
    ELSE Returned(arg[1], <<<<member, "set">>>>, FALSE)

Fill(n, x) == [i \in 1..n |-> x]

\* [[0.0 for _ in range(columns)] for _ in range(rows)]
Matrix(rows, cols, x) == [i \in 1..rows |-> Fill(cols, x)]

\* lines 179-210: the channel count is read, a zero array of that size is
\* passed to the data call; the method returns the call's result, or
\* (local) the array it allocated
CountedArrayResult(v, countMember, member, local, failCount, n, fail, rv) ==
    IF ~HandleUsable(v) THEN Raised("AttributeError", <<>>, FALSE)
    ELSE IF failCount THEN Raised("com_error", <<<<countMember, "get">>>>, TRUE)
    ELSE IF fail THEN
        Raised("com_error", <<<<countMember, "get">>, <<member, "get">>>>, TRUE)
    ELSE Returned(IF local THEN Fill(n, 0) ELSE Fill(n, rv),
                  <<<<countMember, "get">>, <<member, "get">>>>, FALSE)

\* lines 193-203: Channel() returns [] on any exception
ChannelResult(v, failCount, n, fail, rv) ==
    LET r == CountedArrayResult(v, "HardwareInputChannels", "Channel", FALSE,
                                failCount, n, fail, rv)
    IN IF r.outcome = "raised" THEN Returned(<<>>, r.calls, r.failed) ELSE r

\* lines 237-242
RearInputResult(v, fail) ==
    IF ~HandleUsable(v) THEN Raised("AttributeError", <<>>, FALSE)
    ELSE IF fail THEN Raised("com_error", <<<<"RearInput", "get">>>>, TRUE)
    ELSE Returned(Fill(num_inputs, 0), <<<<"RearInput", "get">>>>, FALSE)

\* class VibrationVIEW (lines 16-537) defines no method log, so self.log of
\* line 234 raises AttributeError
HasLog == FALSE

\* lines 212-235; the data call is recorded with the matrix passed to it
VectorResultLocal(v, failLen, rows, cols, fail, rv) ==
    IF ~HandleUsable(v) THEN Raised("AttributeError", <<>>, FALSE)
    ELSE IF failLen THEN Raised("com_error", <<<<"VectorLength", "get">>>>, TRUE)
    ELSE LET calls == <<<<"VectorLength", "get">>,
                        <<"Vector", "get", Matrix(rows, cols, 0)>>>> IN
         IF fail THEN Raised("AttributeError", calls, TRUE)
         ELSE Returned(Matrix(rows, cols, 0), calls, FALSE)
VectorResult(v, failLen, rows, cols, fail, rv) ==
    IF ~HandleUsable(v) THEN Raised("AttributeError", <<>>, FALSE)
    ELSE IF failLen THEN Raised("com_error", <<<<"VectorLength", "get">>>>, TRUE)
    ELSE LET calls == <<<<"VectorLength", "get">>,
                        <<"Vector", "get", Matrix(rows, cols, 0)>>>> IN
         IF fail THEN
             IF HasLog THEN Returned(Matrix(rows, cols, 0), calls, TRUE)
             ELSE Raised("AttributeError", calls, TRUE)
         ELSE Returned(Matrix(rows, cols, rv), calls, FALSE)

\* what the endpoint may return for one channel's TEDS: rows of <<key, value>>
TedsTables == [1..MaxTedsRows -> {"", "k"} \X {"", "v"}]

\* line 327: [item for item in tedsInfo if item[0] and item[1]]
TedsKeep(item) == item[1] # "" /\ item[2] # ""
TedsClean(table) == SelectSeq(table, TedsKeep)

\* lines 312-345: arg is <<>> for all channels, <<c>> for channel c;
\* failing is the set of channels whose Teds call raises
TedsResult(v, arg, failCount, n, failing, table) ==
    IF ~HandleUsable(v) THEN Returned(<<>>, <<>>, FALSE)
    ELSE IF failCount THEN Returned(<<>>, <<<<"HardwareInputChannels", "get">>>>, TRUE)
    ELSE LET chans == IF arg = <<>> THEN [i \in 1..n |-> i - 1] ELSE arg
             entry(c) == IF c \in failing
                           THEN [Channel |-> c + 1, Error |-> "com_error"]
                           ELSE [Channel |-> c + 1, Teds |-> TedsClean(table)]
         IN Returned([i \in 1..Len(chans) |-> entry(chans[i])],
                     <<<<"HardwareInputChannels", "get">>>>
                        \o [i \in 1..Len(chans) |-> <<"Teds", "get">>],
                     \E i \in 1..Len(chans) : chans[i] \in failing)

Channels == 0..(MaxChannels - 1)

\* the argument of a combined getter/setter, of Teds: omitted, or given
OptionalArg(S) == {<<>>} \cup {<<x>> : x \in S}

\* A call of a method of the typed surface on session s: only `last` changes.
\* Such a call leaves the session as it found it, so a call made right after
\* another one starts from the state the first one started from; one call is
\* taken between two steps of the life cycle.
LifeOps == {"__init__", "close", "__del__"}

CanCall(s) == pc[s] = "done" /\ last.op \in LifeOps

Call(s, name, r, env) ==
    /\ last' = [op |-> name, s |-> s, t |-> 0, outcome |-> r.outcome,
                error |-> r.error, value |-> r.value, calls |-> r.calls,
                failed |-> r.failed,
                env |-> IF HandleUsable(vv[s]) THEN env ELSE 0]
    /\ UNCHANGED <<pc, thr, handle, attempt, waitTime, sleeps, reading, firstReady,
                   vv, initialized_com, closes, com_initialized, comCount>>

CallSingle(s) ==
    /\ CanCall(s)
    /\ UNCHANGED restVars
    /\ \E m \in Surface, fail \in BOOLEAN, rv \in Vals :
         Call(s, m[1], SingleResult(vv[s], m[2], m[3], fail, rv),
              [fail |-> fail, rv |-> rv])

CallGetSet(s) ==
    /\ CanCall(s)
    /\ UNCHANGED restVars
    /\ \E m \in GetSetSurface, arg \in OptionalArg(Vals), fail \in BOOLEAN, rv \in Vals :
         Call(s, m[1], GetSetResult(vv[s], m[2], arg, fail, rv),
              [arg |-> arg, fail |-> fail, rv |-> rv])

CallLoopArray(s) ==
    /\ CanCall(s)
    /\ UNCHANGED restVars
    /\ \E m \in LoopArraySurface, failCount \in BOOLEAN, n \in 0..MaxChannels,
          fail \in BOOLEAN, rv \in Vals :
         Call(s, m[1],
              CountedArrayResult(vv[s], "HardwareOutputChannels", m[1], m[2],
                                 failCount, n, fail, rv),
              [failCount |-> failCount, n |-> n, fail |-> fail, rv |-> rv])

CallChannel(s) ==
    /\ CanCall(s)
    /\ UNCHANGED restVars
    /\ \E failCount \in BOOLEAN, n \in 0..MaxChannels, fail \in BOOLEAN, rv \in Vals :
         Call(s, "Channel", ChannelResult(vv[s], failCount, n, fail, rv),
              [failCount |-> failCount, n |-> n, fail |-> fail, rv |-> rv])

CallRearInput(s) ==
    /\ CanCall(s)
    /\ UNCHANGED restVars
    /\ \E fail \in BOOLEAN :
         Call(s, "RearInput", RearInputResult(vv[s], fail), [fail |-> fail])

CallVector(s) ==
    /\ CanCall(s)
    /\ UNCHANGED restVars
    /\ \E failLen \in BOOLEAN, rows \in 0..MaxRows, cols \in 1..MaxCols,
          fail \in BOOLEAN, rv \in Vals :
         Call(s, "Vector", VectorResult(vv[s], failLen, rows, cols, fail, rv),
              [failLen |-> failLen, rows |-> rows, cols |-> cols, fail |-> fail,
               rv |-> rv])

CallTeds(s) ==
    /\ CanCall(s)
    /\ UNCHANGED restVars
    /\ \E arg \in OptionalArg(Channels), failCount \in BOOLEAN, n \in 0..MaxChannels,
          failing \in SUBSET Channels, table \in TedsTables :
         Call(s, "Teds", TedsResult(vv[s], arg, failCount, n, failing, table),
              [arg |-> arg, failCount |-> failCount, n |-> n, failing |-> failing,
               table |-> table])

\* =================================================================
\* The endpoint's own state
\* =================================================================
\* the status predicates of lines 142-172
StatusSurface == {m \in Surface : m[3] = "bool"}

\* the combined getter/setters of lines 372-435, which read and assign a
\* property of the endpoint
PropertySurface ==
    {m \in GetSetSurface :
        m[1] \notin {"InputCapacitorCoupled", "InputAccelPowerSource", "InputDifferential"}}

\* the members of the endpoint that hold a value between calls
StatusMembers == {m[2] : m \in StatusSurface}
PropertyMembers == {m[2] : m \in PropertySurface}
EndpointMembers == StatusMembers \cup PropertyMembers

\* ---------------------------------------------------------------- Init
Init ==
    /\ pc = [s \in Sessions |-> "new"]
    /\ thr = [s \in Sessions |-> 0]
    /\ handle = [s \in Sessions |-> "none"]
    /\ attempt = [s \in Sessions |-> 0]
    /\ waitTime = [s \in Sessions |-> 0]
    /\ sleeps = [s \in Sessions |-> <<>>]
    /\ reading = [s \in Sessions |-> "none"]
    /\ firstReady = [s \in Sessions |-> 0]
    /\ vv = [s \in Sessions |-> "unset"]
    /\ initialized_com = [s \in Sessions |-> "unset"]
    /\ closes = [s \in Sessions |-> 0]
    /\ com_initialized = [t \in Threads |-> {}]
    /\ comCount = [t \in Threads |-> 0]
    /\ last = Op("none", 0, 0, "none")
    /\ endpoint = [m \in EndpointMembers |-> 0]
    /\ prev = Op("none", 0, 0, "none")
    /\ tester = [pc |-> "idle", ran |-> <<>>, remote |-> FALSE,
                 summarized |-> FALSE, returned |-> <<>>]
    /\ wpc = "idle"
    /\ twin = [wpc |-> "idle", result |-> <<>>, returned |-> <<>>, events |-> <<>>]
    /\ wfn = "none"
    /\ wait_time = 0
    /\ check_interval = 0
    /\ elapsed = 0
    /\ result = <<>>
    /\ returned = <<>>
    /\ events = <<>>
    /\ predicate = FALSE
    /\ atCall = FALSE

\* ---------------------------------------------------------------- Next
\* Any number of sessions on any threads: construct, close, destroy.
Next ==
    \/ \E s \in Sessions, t \in Threads, ok \in BOOLEAN : Construct(s, t, ok)
    \/ \E s \in Sessions, t \in Threads : close(s, t)
    \/ \E s \in Sessions, t \in Threads : Del(s, t)

Spec == Init /\ [][Next]_vars

\* One session, its construction taken step by step.
One == {1}

NextSession ==
    \/ \E s \in One, t \in Threads, d \in {"raise", "obj", "falsy"} : InitBegin(s, t, d)
    \/ \E s \in One, r \in {"ready", "notready", "raise"} : InitAttempt(s, r)
    \/ \E s \in One : InitSleep(s)
    \/ \E s \in One, t \in Threads : close(s, t)
    \/ \E s \in One, t \in Threads : Del(s, t)
    \/ \E s \in One : CallSingle(s)
    \/ \E s \in One : CallGetSet(s)
    \/ \E s \in One : CallLoopArray(s)
    \/ \E s \in One : CallChannel(s)
    \/ \E s \in One : CallRearInput(s)
    \/ \E s \in One : CallVector(s)
    \/ \E s \in One : CallTeds(s)

SpecSession == Init /\ [][NextSession]_vars

\* =================================================================
\* Calls against an endpoint that keeps its state between calls
\* =================================================================
\* The application changes one of its members by itself (a test starts,
\* stops, aborts; the operator changes a setting).
EndpointChange(m, v) ==
    /\ endpoint[m] # v
    /\ endpoint' = [endpoint EXCEPT ![m] = v]
    /\ prev' = last
    /\ last' = [Op("endpoint", 0, 0, "changed") EXCEPT
                    !.value = v, !.calls = <<<<m, "change">>>>]
    /\ UNCHANGED <<pc, thr, handle, attempt, waitTime, sleeps, reading, firstReady,
                   vv, initialized_com, closes, com_initialized, comCount>>
    /\ UNCHANGED <<waitVars, tester>>

\* lines 142-172: a status predicate reads the endpoint's member now
ReadStatus(s, m) ==
    /\ pc[s] = "done"
    /\ \E fail \in BOOLEAN :
         Call(s, m[1], SingleResult(vv[s], m[2], m[3], fail, endpoint[m[2]]),
              [fail |-> fail, rv |-> endpoint[m[2]]])
    /\ prev' = last
    /\ UNCHANGED <<endpoint, waitVars, tester>>

\* self.vv.<member> = value: the endpoint holds the value once the
\* assignment has returned; a read, or an assignment that raised, leaves it
PropertyAfterUnassigned(ep, r, x) == ep
PropertyAfter(ep, r, x) ==
    IF r.outcome = "returned" /\ r.calls # <<>> /\ r.calls[1][2] = "set"
      THEN [ep EXCEPT ![r.calls[1][1]] = x]
      ELSE ep

\* lines 372-435: a combined getter/setter reads the endpoint's property,
\* or assigns it
GetSetProperty(s, m, arg) ==
    /\ pc[s] = "done"
    /\ \E fail \in BOOLEAN :
         LET r == GetSetResult(vv[s], m[2], arg, fail, endpoint[m[2]]) IN
         /\ Call(s, m[1], r, [arg |-> arg, fail |-> fail, rv |-> endpoint[m[2]]])
         /\ endpoint' = PropertyAfter(endpoint, r, IF arg = <<>> THEN 0 ELSE arg[1])
    /\ prev' = last
    /\ UNCHANGED <<waitVars, tester>>

\* One session and the endpoint's status flags.
NextStatus ==
    \/ \E s \in One, t \in One, ok \in BOOLEAN : Construct(s, t, ok)
    \/ \E m \in StatusMembers, v \in Vals : EndpointChange(m, v)
    \/ \E s \in One, m \in StatusSurface : ReadStatus(s, m)

SpecStatus == Init /\ [][NextStatus]_vars

\* One session and the endpoint's properties.
NextProperty ==
    \/ \E s \in One, t \in One, ok \in BOOLEAN : Construct(s, t, ok)
    \/ \E m \in PropertyMembers, v \in Vals : EndpointChange(m, v)
    \/ \E s \in One, m \in PropertySurface, arg \in OptionalArg(Vals) :
           GetSetProperty(s, m, arg)

SpecProperty == Init /\ [][NextProperty]_vars

\* =================================================================
\* The polling helpers (app.py lines 93-138, tests/conftest.py lines 98-151)
\* =================================================================
\* Time is in ticks; elapsed is time.time() - start_time.
CondFns == {"app.wait_for_condition", "conftest.wait_for_condition"}
NotFns == {"app.wait_for_not", "conftest.wait_for_not"}
WaitFns == CondFns \cup NotFns

\* the arguments: wait_time (zero and negative included), check_interval
WaitTimes == (0 - 1)..MaxWait
Intervals == 0..MaxInterval

\* while time.time() - start_time < wait_time
InLoopInclusive(e, wt) == e <= wt
InLoop(e, wt) == e < wt

\* wait_for_condition: if result: break
CondStopsNever(b) == FALSE
CondStops(b) == b

\* wait_for_not: if not result: return
NotStopsNever(b) == FALSE
NotStops(b) == ~b

\* wait_for_not returns result (app.py line 135) or False (conftest.py line 148)
NotReturnNegated(f, b) == IF f = "app.wait_for_not" THEN ~b ELSE FALSE
NotReturn(f, b) == IF f = "app.wait_for_not" THEN b ELSE FALSE

\* the samples among the events, in order
IsSample(ev) == ev[1] = "sample"
Samples(evs) == SelectSeq(evs, IsSample)

\* The copy of helper f in the other file.
Twin(f) ==
    CASE f = "app.wait_for_condition" -> "conftest.wait_for_condition"
      [] f = "conftest.wait_for_condition" -> "app.wait_for_condition"
      [] f = "app.wait_for_not" -> "conftest.wait_for_not"
      [] f = "conftest.wait_for_not" -> "app.wait_for_not"

\* The other copy's steps, on a record c of its position, result, return
\* value and events.  It is called with the same arguments, reads the same
\* clock e and gets the same sample b.
CallStep(f) ==
    [wpc |-> "test", result |-> IF f \in CondFns THEN <<FALSE>> ELSE <<>>,
     returned |-> <<>>, events |-> <<>>]

TestStep(f, c, e, wt) ==
    IF c.wpc # "test" THEN c
    ELSE IF InLoop(e, wt) THEN [c EXCEPT !.wpc = "sample"]
    ELSE [c EXCEPT !.wpc = "done",
                   !.returned = IF f \in CondFns THEN c.result ELSE <<TRUE>>]

SampleStep(f, c, b) ==
    IF c.wpc # "sample" THEN c
    ELSE LET d == [c EXCEPT !.result = <<b>>,
                            !.events = Append(@, <<"sample", b>>)] IN
         IF f \in CondFns
           THEN IF CondStops(b)
                  THEN [d EXCEPT !.wpc = "done", !.returned = <<b>>]
                  ELSE [d EXCEPT !.wpc = "sleep"]
           ELSE IF NotStops(b)
                  THEN [d EXCEPT !.wpc = "done", !.returned = <<NotReturn(f, b)>>]
                  ELSE [d EXCEPT !.wpc = "sleep"]

SleepStep(c, ci) ==
    IF c.wpc # "sleep" THEN c
    ELSE [c EXCEPT !.wpc = "test", !.events = Append(@, <<"sleep", ci>>)]

\* The call: start_time = time.time(), and result = False in
\* wait_for_condition.
WaitCall(f, wt, ci) ==
    /\ wpc \in {"idle", "done"}
    /\ wfn' = f
    /\ wait_time' = wt
    /\ check_interval' = ci
    /\ elapsed' = 0
    /\ result' = IF f \in CondFns THEN <<FALSE>> ELSE <<>>
    /\ returned' = <<>>
    /\ events' = <<>>
    /\ atCall' = predicate
    /\ wpc' = "test"
    /\ twin' = CallStep(Twin(f))
    /\ UNCHANGED predicate
    /\ UNCHANGED <<sessionVars, endpoint, prev, tester>>

\* Time passes while the helper runs.
Tick ==
    /\ wpc \in {"test", "sample", "sleep"}
    /\ elapsed < MaxClock
    /\ elapsed' = elapsed + 1
    /\ UNCHANGED <<wpc, wfn, wait_time, check_interval, result, returned, events,
                   predicate, atCall, twin>>
    /\ UNCHANGED <<sessionVars, endpoint, prev, tester>>

\* What the predicate observes changes.
PredicateChange ==
    /\ predicate' = ~predicate
    /\ UNCHANGED <<wpc, wfn, wait_time, check_interval, elapsed, result, returned,
                   events, atCall, twin>>
    /\ UNCHANGED <<sessionVars, endpoint, prev, tester>>

\* The loop test; when it fails the helper returns result
\* (wait_for_condition) or True (wait_for_not).
WaitTest ==
    /\ wpc = "test"
    /\ IF InLoop(elapsed, wait_time)
         THEN /\ wpc' = "sample"
              /\ UNCHANGED returned
         ELSE /\ wpc' = "done"
              /\ returned' = IF wfn \in CondFns THEN result ELSE <<TRUE>>
    /\ twin' = TestStep(Twin(wfn), twin, elapsed, wait_time)
    /\ UNCHANGED <<wfn, wait_time, check_interval, elapsed, result, events,
                   predicate, atCall>>
    /\ UNCHANGED <<sessionVars, endpoint, prev, tester>>

\* result = condition_func(), and the test that ends the loop
WaitSample ==
    /\ wpc = "sample"
    /\ Len(Samples(events)) < MaxSamples
    /\ result' = <<predicate>>
    /\ events' = Append(events, <<"sample", predicate>>)
    /\ IF wfn \in CondFns
         THEN IF CondStops(predicate)
                THEN wpc' = "done" /\ returned' = <<predicate>>
                ELSE wpc' = "sleep" /\ UNCHANGED returned
         ELSE IF NotStops(predicate)
                THEN wpc' = "done" /\ returned' = <<NotReturn(wfn, predicate)>>
                ELSE wpc' = "sleep" /\ UNCHANGED returned
    /\ twin' = SampleStep(Twin(wfn), twin, predicate)
    /\ UNCHANGED <<wfn, wait_time, check_interval, elapsed, predicate, atCall>>
    /\ UNCHANGED <<sessionVars, endpoint, prev, tester>>

\* time.sleep(check_interval)
WaitSleep ==
    /\ wpc = "sleep"
    /\ events' = Append(events, <<"sleep", check_interval>>)
    /\ elapsed' = IF elapsed + check_interval > MaxClock
                     THEN MaxClock ELSE elapsed + check_interval
    /\ wpc' = "test"
    /\ twin' = SleepStep(twin, check_interval)
    /\ UNCHANGED <<wfn, wait_time, check_interval, result, returned, predicate,
                   atCall>>
    /\ UNCHANGED <<sessionVars, endpoint, prev, tester>>

NextPolling ==
    \/ \E f \in WaitFns, wt \in WaitTimes, ci \in Intervals :
           WaitCall(f, wt, ci)
    \/ Tick
    \/ PredicateChange
    \/ WaitTest
    \/ WaitSample
    \/ WaitSleep

SpecPolling == Init /\ [][NextPolling]_vars

\* The helpers with predicate calls that take no time, sleeps that take
\* exactly check_interval, and a predicate that stays false; the loop
\* keeps running.
NextExactClock ==
    \/ \E f \in WaitFns, wt \in WaitTimes, ci \in Intervals :
           WaitCall(f, wt, ci)
    \/ WaitTest
    \/ WaitSample
    \/ WaitSleep

SpecExactClock ==
    Init /\ [][NextExactClock]_vars /\ WF_vars(WaitTest \/ WaitSample \/ WaitSleep)

\* =================================================================
\* The harness: run_all_tests
\* =================================================================
\* the names run_all_tests passes to run_test, in order
Tests ==
    <<"Connection test", "Basic properties", "Window control", "File operations",
      "Channel information", "Data acquisition", "Test control",
      "Sine-specific functions", "Input Configuration functions",
      "Recording functions">>

\* what a test function does: <<"returned", value>> or <<"raised", what>>
TestOutcomes ==
    {<<"returned", "True">>, <<"returned", "False">>, <<"raised", "Exception">>}

\* test_connection, for what construction left in the session's vv:
\* reading the attribute raises when construction never assigned it
test_connection(v) ==
    IF v = "unset" THEN <<"raised", "AttributeError">>
    ELSE IF v = "null" THEN <<"returned", "False">>
    ELSE <<"returned", "True">>

\* run_test: the function's result, or None when it raised
run_test(o) == IF o[1] = "returned" THEN o[2] ELSE "None"

\* if not self.run_test("Connection test", ...)
ConnectedUnlessFalse(r) == r # "False"
Connected(r) == r = "True"

\* run_all_tests is called
RunAllTests ==
    /\ tester.pc = "idle"
    /\ tester' = [tester EXCEPT !.pc = "connect"]
    /\ UNCHANGED <<sessionVars, endpoint, prev, waitVars>>

\* The connection test, run through run_test; v is what construction left
\* in self.vv.vv: the ready handle, or nothing at all.
TestConnection(v) ==
    /\ tester.pc = "connect"
    /\ LET r == run_test(test_connection(v)) IN
       tester' = [tester EXCEPT
                     !.ran = Append(@, <<Tests[1], r>>),
                     !.pc = IF Connected(r) THEN "tests" ELSE "summary"]
    /\ UNCHANGED <<sessionVars, endpoint, prev, waitVars>>

\* The next of the nine other tests, run through run_test; its result is
\* dropped.  The test functions call the endpoint through self.vv.
RunTest(o) ==
    /\ tester.pc = "tests"
    /\ LET i == Len(tester.ran) + 1 IN
       tester' = [tester EXCEPT
                     !.ran = Append(@, <<Tests[i], run_test(o)>>),
                     !.remote = TRUE,
                     !.pc = IF i = Len(Tests) THEN "summary" ELSE "tests"]
    /\ UNCHANGED <<sessionVars, endpoint, prev, waitVars>>

\* summarize_results, and the return of run_all_tests
SummarizeResults ==
    /\ tester.pc = "summary"
    /\ tester' = [tester EXCEPT
                     !.summarized = TRUE,
                     !.returned = <<Connected(tester.ran[1][2])>>,
                     !.pc = "done"]
    /\ UNCHANGED <<sessionVars, endpoint, prev, waitVars>>

NextRunAll ==
    \/ RunAllTests
    \/ \E v \in {"live", "unset"} : TestConnection(v)
    \/ \E o \in TestOutcomes : RunTest(o)
    \/ SummarizeResults

\* run_all_tests is straight-line code: once the tests are over it goes
\* on to the summary
SpecRunAll == Init /\ [][NextRunAll]_vars /\ WF_vars(SummarizeResults)

\* =================================================================
\* Properties of construction (specification SpecSession)
\* =================================================================
RECURSIVE Sum(_)
Sum(q) == IF q = <<>> THEN 0 ELSE Head(q) + Sum(Tail(q))

IsPrefix(p, q) == Len(p) <= Len(q) /\ \A i \in 1..Len(p) : p[i] = q[i]

\* the backoff delays 0.5, 1, 2, 4, 8 in ticks of 0.5
Backoff == <<1, 2, 4, 8, 16>>

\* the totals 0, 0.5, 1.5, 3.5, 7.5 slept before attempt k, in ticks of 0.5
SleptBefore == <<0, 1, 3, 7, 15>>

\* src/app.py line 156, tests/conftest.py line 207: session.vv is None
VvIsNone(v) == CASE v = "unset" -> "AttributeError"
                 [] v = "null" -> "True"
                 [] v = "live" -> "False"

\* construction has returned and nothing has touched the session since
Constructed(s) == pc[s] = "done" /\ closes[s] = 0

\* C1: when Dispatch raises or all readiness attempts fail, construction
\* returns without raising and the session holds a null handle, so that
\* `session.vv is None` evaluates to True.
C1_DeadSessionHoldsNull ==
    \A s \in Sessions :
        (Constructed(s) /\ firstReady[s] = 0) =>
            /\ (last.op = "__init__" /\ last.s = s) => last.outcome = "returned"
            /\ vv[s] = "null"
            /\ VvIsNone(vv[s]) = "True"

\* C3: a construction makes at most 5 readiness attempts, its sleeps are,
\* in order, 0.5, 1, 2, 4, 8 (1, 2, 4, 8, 16 ticks), and it never sleeps
\* more than 15.5 (31 ticks) in total.
C3_BoundedBackoff ==
    \A s \in Sessions :
        /\ attempt[s] <= 5
        /\ IsPrefix(sleeps[s], Backoff)
        /\ Sum(sleeps[s]) <= 31

C3_Witness ==
    \E s \in Sessions : Constructed(s) /\ attempt[s] = 5 /\ Sum(sleeps[s]) = 31

\* C4: if IsReady first reads true on attempt k, construction ends with a
\* live handle after exactly k attempts, having slept exactly the first
\* k-1 delays.
C4_ReadyOnAttemptK ==
    \A s \in Sessions :
        (Constructed(s) /\ firstReady[s] # 0) =>
            /\ vv[s] = "live"
            /\ attempt[s] = firstReady[s]
            /\ Len(sleeps[s]) = firstReady[s] - 1
            /\ Sum(sleeps[s]) = SleptBefore[firstReady[s]]

C4_Witness ==
    \E s \in Sessions :
        Constructed(s) /\ firstReady[s] = 3 /\ vv[s] = "live" /\ Sum(sleeps[s]) = 3

\* C5: self.vv is stored only by an attempt whose handle was non-null and
\* whose IsReady read true; an attempt on an existing handle that reads
\* not-ready stores nothing and is followed by a backoff sleep.
C5_StoredOnlyWhenReady ==
    \A s \in Sessions :
        (vv[s] = "live" => handle[s] = "obj" /\ reading[s] = "ready")

C5_NotReadyThenSleep ==
    \A s \in Sessions :
        /\ (pc[s] = "check" /\ pc'[s] # "check" /\ handle[s] = "obj"
              /\ reading'[s] = "notready")
           => (pc'[s] = "sleep" /\ vv'[s] = vv[s] /\ vv'[s] # "live")
        /\ (pc[s] = "sleep" /\ pc'[s] # "sleep")
           => sleeps'[s] = Append(sleeps[s], waitTime[s])

C5_StoreOnlyReady == []C5_StoredOnlyWhenReady /\ [][C5_NotReadyThenSleep]_vars

C5_Witness ==
    \E s \in Sessions :
        /\ handle[s] = "obj" /\ reading[s] = "notready" /\ pc[s] = "check"
        /\ Len(sleeps[s]) = attempt[s] - 1 /\ attempt[s] >= 2 /\ vv[s] = "unset"

\* =================================================================
\* Properties of the session life cycle (specification Spec)
\* =================================================================
\* no close() and no __del__ has run so far
NoTeardown == \A s \in Sessions : closes[s] = 0 /\ pc[s] # "gone"

BuiltOn(t) == {s \in Sessions : pc[s] = "done" /\ thr[s] = t}

\* a step in which the teardown of session s calls CoUninitialize on thread t
UninitBy(s, t) ==
    \/ close(s, t)
    \/ Del(s, t) /\ com_initialized'[t] # com_initialized[t]

\* C6: close() never raises, and a second consecutive close() of a session
\* changes neither its handle nor the calling thread's COM initialization.
C6_SecondCloseIsNoOp ==
    [][ \A s \in Sessions, t \in Threads :
          (last.op = "close" /\ last.s = s /\ close(s, t)) =>
              /\ last'.outcome = "returned"
              /\ vv'[s] = vv[s]
              /\ comCount'[t] = comCount[t] ]_vars

\* C7: with no teardown in between, the constructions on one thread call
\* CoInitialize exactly once, in the first of them, and only that session
\* is marked as having initialized COM; each thread is initialized by its
\* own first construction.
C7_OncePerThread ==
    NoTeardown =>
        \A t \in Threads :
            /\ comCount[t] = (IF BuiltOn(t) = {} THEN 0 ELSE 1)
            /\ Cardinality({s \in BuiltOn(t) : initialized_com[s] = TRUE})
                 = (IF BuiltOn(t) = {} THEN 0 ELSE 1)
            /\ \A s \in BuiltOn(t) : initialized_com[s] \in BOOLEAN

C7_FirstOwns ==
    \A s \in Sessions, t \in Threads :
        (NoTeardown /\ pc[s] = "new" /\ pc'[s] # "new" /\ thr'[s] = t) =>
            /\ (initialized_com'[s] = TRUE) <=> (BuiltOn(t) = {})
            /\ (comCount'[t] = comCount[t] + 1) <=> (BuiltOn(t) = {})
            /\ \A u \in Threads \ {t} : comCount'[u] = comCount[u]

C7_InitOncePerThread == []C7_OncePerThread /\ [][C7_FirstOwns]_vars

C7_Witness ==
    /\ NoTeardown
    /\ \E s1, s2 \in Sessions :
         /\ s1 # s2 /\ thr[s1] = thr[s2] /\ pc[s1] = "done" /\ pc[s2] = "done"
         /\ initialized_com[s1] = TRUE /\ initialized_com[s2] = FALSE
         /\ comCount[thr[s1]] = 1

\* C8: CoUninitialize is only ever called by the teardown of the session
\* whose construction called the matching CoInitialize, and at most once
\* for that initialization (here: for teardown run on the thread that
\* constructed the session).
C8_OnlyOwnerUninitializes ==
    [][ \A s \in Sessions, t \in Threads :
          (UninitBy(s, t) /\ thr[s] = t) =>
              /\ initialized_com[s] = TRUE
              /\ closes[s] = 0 ]_vars

\* =================================================================
\* Properties of the typed call surface (specification SpecSession)
\* =================================================================
\* the latest operation was a call of a method of the typed surface
TypedCall == last.op \notin (LifeOps \cup {"none"})

\* the session the latest call was made on never got a handle
OnFailedSession ==
    /\ TypedCall
    /\ pc[last.s] = "done" /\ vv[last.s] = "unset" /\ firstReady[last.s] = 0

\* C2: on a session whose connection failed, every method of the typed
\* surface (Channel() and Teds() included) fails with an error.
C2_DeadSessionCallsFail == OnFailedSession => last.outcome = "raised"

\* C9: apart from Vector and Teds, a method whose remote call fails raises
\* to its caller; it never turns the failure into a returned value.
C9_RemoteFailurePropagates ==
    (TypedCall /\ last.failed /\ last.op \notin {"Vector", "Teds"})
        => last.outcome = "raised"

\* C10: Vector(vectorId, columns) never raises (here: on a live session whose
\* row-count query succeeded); when the data call fails it returns the
\* rows-by-columns zero matrix, and an empty matrix when the row count is 0.
C10_VectorNeverRaises ==
    (last.op = "Vector" /\ HandleUsable(vv[last.s]) /\ ~last.env.failLen) =>
        /\ last.outcome = "returned"
        /\ last.env.fail => last.value = Matrix(last.env.rows, last.env.cols, 0)
        /\ last.env.rows = 0 => last.value = <<>>

\* =================================================================
\* Properties of Teds (specification SpecSession)
\* =================================================================
\* the channels a Teds call is asked for: all N input channels in index
\* order, or the one it was given
TedsRequested(e) == IF e.arg = <<>> THEN [i \in 1..e.n |-> i - 1] ELSE e.arg

\* C11: Teds() returns exactly one entry per input channel 0..N-1 in index
\* order, Teds(c) exactly one entry; the entry of channel c carries c+1 and
\* either the cleaned pairs or the error record of that channel's call, the
\* same whatever the other channels' calls did (here: on a live session).
C11_TedsOneEntryPerChannel ==
    (last.op = "Teds" /\ HandleUsable(vv[last.s])) =>
        LET e == last.env
            chans == TedsRequested(e)
        IN /\ last.outcome = "returned"
           /\ Len(last.value) = Len(chans)
           /\ \A i \in 1..Len(chans) :
                last.value[i] =
                    IF chans[i] \in e.failing
                      THEN [Channel |-> chans[i] + 1, Error |-> "com_error"]
                      ELSE [Channel |-> chans[i] + 1, Teds |-> TedsClean(e.table)]

\* a row whose key and value are both empty
EmptyRow(item) == item[1] = "" /\ item[2] = ""

\* a table without its trailing run of empty rows
RECURSIVE StripTrailingEmpty(_)
StripTrailingEmpty(table) ==
    IF table = <<>> THEN <<>>
    ELSE IF EmptyRow(table[Len(table)])
           THEN StripTrailingEmpty(SubSeq(table, 1, Len(table) - 1))
           ELSE table

\* C12: the pairs returned for a channel whose call succeeded are the
\* endpoint's rows with only the trailing run of empty rows removed; rows
\* with exactly one empty column and rows before the last non-empty row stay.
C12_OnlyTrailingEmptyStripped ==
    (last.op = "Teds" /\ last.outcome = "returned") =>
        \A i \in 1..Len(last.value) :
            "Teds" \in DOMAIN last.value[i] =>
                last.value[i].Teds = StripTrailingEmpty(last.env.table)

\* =================================================================
\* Properties of the combined getter/setters (specification SpecSession)
\* =================================================================
GetSetMethods == {m[1] : m \in GetSetSurface}

\* the member of the endpoint a combined getter/setter is about
MemberOf(method) == (CHOOSE m \in GetSetSurface : m[1] = method)[2]

\* C13: a combined getter/setter called without a value makes exactly one
\* remote read and no write; called with a value (0 included) it makes
\* exactly one remote write and no read, and returns the value it was given.
C13_GetSetReadsOrWritesOnce ==
    (last.op \in GetSetMethods /\ HandleUsable(vv[last.s])) =>
        LET e == last.env
            m == MemberOf(last.op)
        IN /\ e.arg = <<>> => last.calls = <<<<m, "get">>>>
           /\ e.arg # <<>> =>
                /\ last.calls = <<<<m, "set">>>>
                /\ ~e.fail => (last.outcome = "returned" /\ last.value = e.arg[1])

\* a write of 0 that returned 0 while a read would have reported 1
C13_Witness ==
    /\ last.op = "TestType" /\ HandleUsable(vv[last.s])
    /\ last.env.arg = <<0>> /\ last.env.rv = 1
    /\ last.outcome = "returned" /\ last.value = 0
    /\ last.calls = <<<<"TestType", "set">>>>

StatusFlag ==
    [IsRunning |-> "Running", IsStarting |-> "Starting",
     IsChangingLevel |-> "ChangingLevel", IsHoldLevel |-> "HoldLevel",
     IsOpenLoop |-> "OpenLoop", IsAborted |-> "Aborted",
     CanResumeTest |-> "CanResumeTest", IsReady |-> "IsReady"]

\* C16: a status predicate that returns has made one remote read, of its
\* own flag, and returns the Boolean value the endpoint's flag has now;
\* called after the flag changed, it returns the new value.
C16_StatusIsLive ==
    (last.op \in DOMAIN StatusFlag /\ last.outcome = "returned") =>
        /\ last.calls = <<<<StatusFlag[last.op], "get">>>>
        /\ last.value = (endpoint[StatusFlag[last.op]] # 0)
        /\ ( /\ prev.op = "endpoint"
             /\ prev.calls = <<<<StatusFlag[last.op], "change">>>> )
           => last.value = (prev.value # 0)

\* IsRunning returned FALSE before the flag changed and TRUE after it
C16_Witness ==
    /\ last.op = "IsRunning" /\ last.outcome = "returned" /\ last.value = TRUE
    /\ prev.op = "endpoint" /\ prev.calls = <<<<"Running", "change">>>>
    /\ prev.value = 1

\* =================================================================
\* Lengths of the data arrays (specification SpecSession)
\* =================================================================
\* C15: whenever they return, Channel() returns exactly HardwareInputChannels
\* numbers, Demand(), Control() and Output() exactly HardwareOutputChannels
\* numbers, and RearInput() exactly 8 (here: on a live session whose
\* channel-count read succeeded).
C15_ArrayLengths ==
    /\ (/\ last.op \in {"Channel", "Demand", "Control", "Output"}
        /\ last.outcome = "returned"
        /\ HandleUsable(vv[last.s]) /\ ~last.env.failCount)
       => Len(last.value) = last.env.n
    /\ (last.op = "RearInput" /\ last.outcome = "returned")
       => Len(last.value) = 8

\* =================================================================
\* Properties of the polling helpers (specification SpecPolling)
\* =================================================================
\* every sample is followed by one sleep of check_interval and every sleep
\* by a sample, the first event being a sample
Alternates(evs) ==
    /\ evs # <<>> => IsSample(evs[1])
    /\ \A i \in 1..(Len(evs) - 1) :
         IF IsSample(evs[i])
           THEN evs[i + 1] = <<"sleep", check_interval>>
           ELSE IsSample(evs[i + 1])

\* a sample of value b is the last event
OnlyLast(evs, b) == \A i \in 1..Len(evs) : evs[i] = <<"sample", b>> => i = Len(evs)

\* C17: wait_for_condition returns its last sample; it returns true only if
\* the final sample was true, nothing following that sample; it returns
\* false with every sample false and the timeout elapsed; consecutive
\* samples are one sleep of check_interval apart.
C17_ReturnsLastSample ==
    wfn \in CondFns =>
        /\ Alternates(events)
        /\ OnlyLast(events, TRUE)
        /\ wpc = "done" =>
             /\ Samples(events) # <<>> =>
                  returned = <<Samples(events)[Len(Samples(events))][2]>>
             /\ returned = <<TRUE>> => events[Len(events)] = <<"sample", TRUE>>
             /\ returned = <<FALSE>> =>
                  /\ \A i \in 1..Len(events) : events[i] # <<"sample", TRUE>>
                  /\ ~InLoop(elapsed, wait_time)

\* false, a sleep, then true: returned true right after the second sample
C17_Witness ==
    /\ wfn \in CondFns /\ wpc = "done" /\ returned = <<TRUE>>
    /\ events = <<<<"sample", FALSE>>, <<"sleep", 1>>, <<"sample", TRUE>>>>

\* C18: wait_for_condition samples the predicate at least once on every
\* call, calls with wait_time <= 0 included.
C18_SamplesAtLeastOnce ==
    (wfn \in CondFns /\ wpc = "done") => Samples(events) # <<>>

\* C19: wait_for_not returns false as soon as a sample is false, nothing
\* following that sample, and returns true exactly when no sample was false.
C19_FalseAsSoonAsFalse ==
    wfn \in NotFns =>
        /\ OnlyLast(events, FALSE)
        /\ (events # <<>> /\ events[Len(events)] = <<"sample", FALSE>>)
             => (wpc = "done" /\ returned = <<FALSE>>)
        /\ wpc = "done" =>
             /\ returned \in {<<TRUE>>, <<FALSE>>}
             /\ returned = <<TRUE>> <=>
                  \A i \in 1..Len(events) : events[i] # <<"sample", FALSE>>

\* true, a sleep, then false: returned false right after the second sample
C19_Witness ==
    /\ wfn \in NotFns /\ wpc = "done" /\ returned = <<FALSE>>
    /\ events = <<<<"sample", TRUE>>, <<"sleep", 1>>, <<"sample", FALSE>>>>

\* C20: whatever wait_time and check_interval, wait_for_not called while
\* the predicate is false (and stays false) returns False after its first
\* sample, without sleeping.
C20_FalseAtOnce ==
    (/\ wfn \in NotFns /\ wpc = "done" /\ ~atCall
     /\ \A i \in 1..Len(events) : events[i] # <<"sample", TRUE>>)
        => /\ returned = <<FALSE>>
           /\ events = <<<<"sample", FALSE>>>>

\* =================================================================
\* Timeout of wait_for_condition (specification SpecExactClock)
\* =================================================================
\* ceil(a / b) for b > 0
CeilDiv(a, b) == (a + b - 1) \div b

\* wait_for_condition was called with wait_time > 0 and check_interval > 0
PositiveWait == wfn \in CondFns /\ wait_time > 0 /\ check_interval > 0

C21_AtMostCeilSamples ==
    PositiveWait =>
        /\ Len(Samples(events)) <= CeilDiv(wait_time, check_interval)
        /\ wpc = "done" =>
             /\ returned = <<FALSE>>
             /\ wait_time <= elapsed
             /\ elapsed <= wait_time + check_interval

C21_Terminates == (PositiveWait /\ wpc = "test") ~> (wpc = "done")

C22_ForeignDelTouchesNothing ==
    [][ \A s \in Sessions, t \in Threads :
          (Del(s, t) /\ thr[s] # t) =>
              /\ comCount' = comCount
              /\ com_initialized' = com_initialized ]_vars

\* session s holds a handle and has been neither closed nor destroyed
LiveSession(s) == pc[s] = "done" /\ vv[s] = "live" /\ closes[s] = 0

\* a close() or __del__ of session o, run on thread t
Teardown(o, t) == close(o, t) \/ Del(o, t)

\* C23: while a session with a handle exists, neither closed nor destroyed,
\* COM stays initialized on the thread that constructed it, whatever other
\* sessions of that thread do on that thread.
C23_LiveSessionKeepsCom ==
    [][ \A s, o \in Sessions, t \in Threads :
          (/\ LiveSession(s) /\ thr[s] = t /\ comCount[t] > 0
           /\ o # s /\ thr[o] = t /\ Teardown(o, t))
              => comCount'[t] > 0 ]_vars

\* C24: a thread is in its registry exactly when COM is initialized on it
\* by this module; so a construction after a close() on the same thread
\* initializes COM again.
C24_RegistryMatchesCom ==
    \A t \in Threads : (t \in com_initialized[t]) <=> (comCount[t] > 0)

\* =================================================================
\* More properties of construction (specification SpecSession)
\* =================================================================
\* C25: construction sleeps only between attempts: the number of sleeps
\* stays below the number of attempts made, so nothing is slept after the
\* fifth attempt, whether it read not-ready or raised.
C25_SleepsOnlyBetweenAttempts ==
    \A s \in Sessions : attempt[s] >= 1 => Len(sleeps[s]) <= attempt[s] - 1

\* =================================================================
\* Vector (specification SpecSession)
\* =================================================================
\* C26: Vector queries the row count first, then makes the data call with
\* a zero matrix of that many rows and `columns` columns, and on success
\* returns what the data call returned (here: the row-count query succeeded).
C26_VectorQueriesThenCalls ==
    (last.op = "Vector" /\ HandleUsable(vv[last.s]) /\ ~last.env.failLen) =>
        LET e == last.env IN
        /\ last.calls = <<<<"VectorLength", "get">>,
                          <<"Vector", "get", Matrix(e.rows, e.cols, 0)>>>>
        /\ ~e.fail =>
             /\ last.outcome = "returned"
             /\ last.value = Matrix(e.rows, e.cols, e.rv)

\* two rows of data 1 came back for the zero matrix passed
C26_Witness ==
    /\ last.op = "Vector" /\ HandleUsable(vv[last.s]) /\ last.outcome = "returned"
    /\ last.env.rows = 2 /\ last.env.cols = 1 /\ last.env.rv = 1
    /\ last.calls[2] = <<"Vector", "get", <<<<0>>, <<0>>>>>>
    /\ last.value = <<<<1>>, <<1>>>>

\* =================================================================
\* Dispatch and the retry loop (specification SpecSession)
\* =================================================================
\* construction of s ended because Dispatch raised
DispatchRaised(s) == pc[s] = "done" /\ handle[s] = "none"

C28_NoAttemptAfterRaise ==
    \A s \in Sessions :
        DispatchRaised(s) =>
            attempt[s] = 0 /\ sleeps[s] = <<>> /\ reading[s] = "none"

C28_HandleFromOneDispatch ==
    \A s \in Sessions :
        /\ (handle'[s] # handle[s] /\ pc'[s] # "gone") => pc[s] = "new"
        /\ pc[s] \in {"check", "sleep"} =>
              handle'[s] = handle[s] /\ handle[s] \in {"obj", "falsy"}

\* C28: construction calls Dispatch exactly once: the handle is obtained
\* only by the step that starts construction, every retry tests that same
\* handle, and when Dispatch raises construction ends with no readiness
\* attempt and no sleep.
C28_DispatchOnce ==
    []C28_NoAttemptAfterRaise /\ [][C28_HandleFromOneDispatch]_vars

\* Dispatch raised: construction is over, nothing was attempted
C28_Witness ==
    \E s \in Sessions :
        /\ DispatchRaised(s) /\ thr[s] # 0 /\ vv[s] = "unset"
        /\ attempt[s] = 0 /\ sleeps[s] = <<>>

\* the fifth attempt re-checks the handle the first attempt checked
C28_WitnessRetry ==
    \E s \in Sessions :
        pc[s] = "check" /\ attempt[s] = retryAttempts /\ handle[s] = "obj"

\* =================================================================
\* The two copies of the wait helpers (specification SpecPolling)
\* =================================================================
\* C29: run on the same clock readings and the same Boolean samples, the
\* copy of a wait helper in app.py and the one in tests/conftest.py are at
\* the same point, have taken the same samples and sleeps, and have
\* returned the same value.
C29_CopiesAgree ==
    wpc # "idle" =>
        /\ twin.wpc = wpc
        /\ twin.events = events
        /\ twin.returned = returned

\* wait_for_not of app.py saw true, slept, saw false and returned False,
\* and so did the copy of conftest.py
C29_Witness ==
    /\ wfn = "app.wait_for_not" /\ wpc = "done"
    /\ events = <<<<"sample", TRUE>>, <<"sleep", 1>>, <<"sample", FALSE>>>>
    /\ returned = <<FALSE>>
    /\ twin = [wpc |-> "done", result |-> <<FALSE>>, returned |-> <<FALSE>>,
               events |-> events]

\* =================================================================
\* run_all_tests (specification SpecRunAll)
\* =================================================================
\* the names of the tests run so far, in order
RanNames == [i \in 1..Len(tester.ran) |-> tester.ran[i][1]]

\* the connection test was run and did not return true
ConnectionFailed == Len(tester.ran) >= 1 /\ tester.ran[1][2] # "True"

C30_OrderAndGate ==
    /\ RanNames = SubSeq(Tests, 1, Len(tester.ran))
    /\ ConnectionFailed =>
          /\ Len(tester.ran) = 1 /\ ~tester.remote
          /\ tester.pc \in {"summary", "done"}
          /\ tester.pc = "done" => tester.summarized /\ tester.returned = <<FALSE>>
    /\ (tester.pc = "done" /\ ~ConnectionFailed) =>
          Len(tester.ran) = Len(Tests) /\ tester.summarized
    /\ (tester.pc = "tests") => Len(tester.ran) < Len(Tests)

\* C30: run_all_tests runs the connection test first; when that does not
\* return true (False, or None for a raised exception) no other test runs,
\* no test function uses the endpoint, and the summary is still produced;
\* otherwise the nine other tests run in their fixed order whatever the
\* earlier ones returned or raised.
C30_ConnectionGatesTheRest ==
    []C30_OrderAndGate /\ (ConnectionFailed ~> tester.summarized)

\* the connection test raised, run_test gave None, only the summary followed
C30_Witness ==
    /\ tester.pc = "done"
    /\ tester.ran = <<<<"Connection test", "None">>>>
    /\ tester.summarized /\ ~tester.remote /\ tester.returned = <<FALSE>>

\* all ten ran although the second raised and the third returned False
C30_WitnessAllRun ==
    /\ tester.pc = "done" /\ Len(tester.ran) = Len(Tests)
    /\ tester.ran[2][2] = "None" /\ tester.ran[3][2] = "False"
    /\ tester.ran[Len(Tests)][1] = "Recording functions"

\* =================================================================
\* Typed calls as views of the endpoint (specification SpecSession)
\* =================================================================
\* the latest operation was a call of the typed surface
IsTypedCall(l) == l.op \notin LifeOps \cup {"none"}

\* a typed call leaves the handle, the ownership flag and the registry alone
C27_FrameKept ==
    IsTypedCall(last') =>
        /\ vv' = vv /\ initialized_com' = initialized_com
        /\ com_initialized' = com_initialized /\ comCount' = comCount

\* a returned value comes from a remote call of that invocation, and an
\* array of readings holds the readings the endpoint supplied
C27_ValueFromRemote ==
    (IsTypedCall(last) /\ last.outcome = "returned") =>
        /\ last.calls # <<>>
        /\ (/\ last.op \in {"Demand", "Control", "Output", "Channel"}
            /\ HandleUsable(vv[last.s]) /\ ~last.failed) =>
               last.value = Fill(last.env.n, last.env.rv)

\* C27: every typed call leaves the session's handle and ownership flag
\* and the per-thread registry unchanged, and every value it returns is
\* derived from remote calls made during that same invocation.
C27_TypedCallsAreRemoteViews ==
    []C27_ValueFromRemote /\ [][C27_FrameKept]_vars

\* the frame half of C27 on its own
C27_FrameOnly == [][C27_FrameKept]_vars

\* the array half of C27 on a live session
C27_LiveArraysFromRemote ==
    (/\ last.op \in {"Demand", "Control", "Output", "Channel"}
     /\ last.outcome = "returned"
     /\ HandleUsable(vv[last.s]) /\ ~last.failed) =>
        last.value = Fill(last.env.n, last.env.rv)

=============================================================================
